---- MODULE Spec2Model ----
(***************************************************************************)
(* Model of the DAGI decomposition engine of src/dagi_validation.py:       *)
(* GF(2) rank, graph-state entropy and mutual information, the subset      *)
(* table builder, the Moebius inversion, the aggregation by order and the  *)
(* running synergy ratio, and analyze_fragments, which chains them.        *)
(*                                                                         *)
(* Python values are modelled as follows.                                  *)
(*   numpy 2-d array  a sequence of rows, each a sequence of integers;     *)
(*                    node and row indices stay 0-based as in the source,  *)
(*                    so entry (i, j) of the array is m[i + 1][j + 1]      *)
(*   list / tuple     a sequence                                           *)
(*   dict             a sequence of entries [k |-> key, v |-> value] in    *)
(*                    insertion order (a Python dict keeps it)             *)
(*   float quotient   a fraction [num, den] in lowest terms with den > 0   *)
(*   a call           a record: ret (the value returned), err (the         *)
(*                    exception raised, "" when none) and, for the         *)
(*                    objects the call was handed, their state afterwards  *)
(*                                                                         *)
(* Entropies are ranks, so every mutual information, f-value and fk value  *)
(* of a graph state is an integer, which a float holds exactly; the only   *)
(* value that is not an integer is the quotient of line 173.               *)
(*                                                                         *)
(* A behaviour is one of: a run of analyze_fragments, taken statement by   *)
(* statement; a call of mutual_information_table and then of               *)
(* mobius_inversion on a fragment list as given; a call of gf2_rank on a   *)
(* matrix and on its transpose; a call of mutual_information; a call of    *)
(* running_synergy_ratio. An evaluation "\E call \in {f(x)} : ..." binds    *)
(* the outcome of the one call f(x) the statement makes.                   *)
(***************************************************************************)
EXTENDS Integers, Sequences, FiniteSets, TLC

VARIABLES
  pc,                 \* the statement about to run, or how the run ended
  adjacency,          \* the adjacency matrix of the graph state
  bulk,               \* the bulk node
  fragments,          \* the fragment list as given by the caller
  ordered_fragments,  \* analyze_fragments' sorted copy of it
  mi_table,           \* the MI table, once built
  f_values,           \* the f-values, once inverted
  fk,                 \* the sums of the f-values by subset size
  total_info,         \* the MI of the full fragment set
  ratios,             \* the (k, ratio) pairs
  result,             \* the dict analyze_fragments returns
  err,                \* the exception that ended the run, "" when none
  computed,           \* how many entropy values have been computed so far
  matrix,             \* the array handed to gf2_rank
  rank,               \* gf2_rank(matrix)
  rank_t,             \* gf2_rank(matrix.T)
  a,                  \* the subsets handed to mutual_information
  b,
  mi                  \* mutual_information(adjacency, a, b)

vars == <<pc, adjacency, bulk, fragments, ordered_fragments, mi_table,
          f_values, fk, total_info, ratios, result, err, computed,
          matrix, rank, rank_t, a, b, mi>>

analysisVars == <<adjacency, bulk, fragments, ordered_fragments, mi_table,
                  f_values, fk, total_info, ratios, result, computed>>

rankVars == <<matrix, rank, rank_t>>

miVars == <<a, b, mi>>

\* Number of nodes of the graph state (16 in run_experiment).
NumNodes == 4

\* Number of nodes of the graph states handed to mutual_information directly.
NumNodesMI == 3

\* Largest row and column count of the matrices handed to gf2_rank directly.
MaxDim == 3

\* Largest subset size keyed in an fk mapping handed to running_synergy_ratio.
MaxOrder == 3

\* The fk values and total_info handed to running_synergy_ratio lie in
\* -MaxVal .. MaxVal.
MaxVal == 1

Nodes == 0 .. (NumNodes - 1)

(***************************************************************************)
(* Python helpers.                                                         *)
(***************************************************************************)

\* set(seq)
SetOf(seq) == {seq[i] : i \in 1 .. Len(seq)}

Min(S) == CHOOSE x \in S : \A y \in S : x <= y

\* sorted(S) for a set of integers: ascending.
RECURSIVE SortedSeq(_)
SortedSeq(S) ==
  IF S = {} THEN <<>> ELSE <<Min(S)>> \o SortedSeq(S \ {Min(S)})

\* sorted(seq) for a list of integers (duplicates kept).
RECURSIVE SortedList(_)
SortedList(seq) ==
  IF seq = <<>> THEN <<>>
  ELSE LET lo == Min(SetOf(seq))
           at == Min({i \in 1 .. Len(seq) : seq[i] = lo})
           rest == [i \in 1 .. (Len(seq) - 1) |->
                      IF i < at THEN seq[i] ELSE seq[i + 1]]
       IN <<lo>> \o SortedList(rest)

\* key in d
DictHas(d, key) == \E i \in 1 .. Len(d) : d[i].k = key

\* d[key]; only used where the key is present.
DictGet(d, key) == d[CHOOSE i \in 1 .. Len(d) : d[i].k = key].v

\* d.get(key, default)
DictGetDefault(d, key, default) ==
  IF DictHas(d, key) THEN DictGet(d, key) ELSE default

\* d[key] = value: a present key keeps its place, a new one is appended.
DictSet(d, key, value) ==
  IF DictHas(d, key)
  THEN [i \in 1 .. Len(d) |->
          IF d[i].k = key THEN [k |-> key, v |-> value] ELSE d[i]]
  ELSE Append(d, [k |-> key, v |-> value])

\* list(d.keys())
DictKeys(d) == [i \in 1 .. Len(d) |-> d[i].k]

Abs(x) == IF x < 0 THEN -x ELSE x

RECURSIVE Gcd(_, _)
Gcd(x, y) == IF y = 0 THEN x ELSE Gcd(y, x % y)

\* The float 0.0.
FloatZero == [num |-> 0, den |-> 1]

\* x / y for y # 0, as the fraction in lowest terms.
FloatDiv(x, y) ==
  LET g == Gcd(Abs(x), Abs(y))
      s == IF y < 0 THEN -1 ELSE 1
  IN [num |-> (s * x) \div g, den |-> (s * y) \div g]

(***************************************************************************)
(* gf2_rank                                                                *)
(***************************************************************************)

\* matrix.shape
Rows(m) == Len(m)
Cols(m) == IF Len(m) = 0 THEN 0 ELSE Len(m[1])

\* matrix.copy() % 2
CopyMod2(m) == [r \in 1 .. Rows(m) |-> [c \in 1 .. Cols(m) |-> m[r][c] % 2]]

\* The pivot search started at row 0 instead of row rank.
PivotRowFromTop(m, rk, col) ==
  LET hits == {r \in 0 .. (Rows(m) - 1) : m[r + 1][col + 1] = 1}
  IN IF hits = {} THEN -1 ELSE Min(hits)

\* The search of lines 93-97: the first row r in range(rank, rows) with
\* m[r, col] == 1, as a 0-based row, or -1 for None.
PivotRow(m, rk, col) ==
  LET hits == {r \in rk .. (Rows(m) - 1) : m[r + 1][col + 1] = 1}
  IN IF hits = {} THEN -1 ELSE Min(hits)

\* m[[rank, pivot_row]] = m[[pivot_row, rank]]
SwapRows(m, i, j) == [m EXCEPT ![i + 1] = m[j + 1], ![j + 1] = m[i + 1]]

\* The loop of lines 102-104: XOR the pivot row into every other row that
\* has a 1 in the column.
ReduceColumn(m, rk, col) ==
  [r \in 1 .. Rows(m) |->
     IF (r - 1) # rk /\ m[r][col + 1] = 1
     THEN [c \in 1 .. Cols(m) |-> (m[r][c] + m[rk + 1][c]) % 2]
     ELSE m[r]]

\* The loop of lines 92-107 from column col on, on the working array m.
RECURSIVE Eliminate(_, _, _)
Eliminate(m, rk, col) ==
  IF col >= Cols(m) THEN [m |-> m, rank |-> rk]
  ELSE LET pivot_row == PivotRow(m, rk, col)
       IN IF pivot_row = -1 THEN Eliminate(m, rk, col + 1)
          ELSE LET swapped == IF pivot_row # rk
                              THEN SwapRows(m, rk, pivot_row) ELSE m
                   reduced == ReduceColumn(swapped, rk, col)
               IN IF rk + 1 = Rows(m)
                  THEN [m |-> reduced, rank |-> rk + 1]
                  ELSE Eliminate(reduced, rk + 1, col + 1)

\* The elimination run on the argument itself, with no copy taken.
gf2_rank_in_place(m) ==
  LET run == Eliminate(CopyMod2(m), 0, 0)
  IN [ret |-> run.rank, matrix |-> run.m]

\* gf2_rank(matrix): the rank, and the caller's array after the call (the
\* elimination works on the copy of line 89).
gf2_rank(m) ==
  LET run == Eliminate(CopyMod2(m), 0, 0)
  IN [ret |-> run.rank, matrix |-> m]

(***************************************************************************)
(* entropy_from_adjacency, mutual_information                              *)
(***************************************************************************)

\* numpy accepts an index i along an axis of length n when -n <= i < n and
\* reads a negative one from the end; any other index raises IndexError.
IndexInRange(i, n) == -n <= i /\ i < n

WrapIndex(i, n) == IF i < 0 THEN i + n ELSE i

\* entropy_from_adjacency(adjacency, subset). computed is 1 when an entropy
\* value was returned and 0 when the call raised.
entropy_from_adjacency(adj, subset) ==
  IF subset = <<>> THEN [ret |-> 0, err |-> "", computed |-> 1]
  ELSE LET n == Rows(adj)
           keep == SetOf(subset)
           complement == SortedSeq({i \in 0 .. (n - 1) : i \notin keep})
       IN IF complement = <<>> THEN [ret |-> 0, err |-> "", computed |-> 1]
          ELSE IF \/ \E i \in 1 .. Len(subset) :
                       ~IndexInRange(subset[i], Rows(adj))
                  \/ \E j \in 1 .. Len(complement) :
                       ~IndexInRange(complement[j], Cols(adj))
               THEN [ret |-> 0, err |-> "IndexError", computed |-> 0]
               ELSE LET submatrix ==
                          [i \in 1 .. Len(subset) |->
                             [j \in 1 .. Len(complement) |->
                                adj[WrapIndex(subset[i], Rows(adj)) + 1]
                                   [WrapIndex(complement[j], Cols(adj)) + 1] % 2]]
                    IN [ret |-> gf2_rank(submatrix).ret, err |-> "",
                        computed |-> 1]

\* mutual_information with the operands of the difference exchanged.
mutual_information_exchanged(adj, x, y) ==
  LET a_entropy == entropy_from_adjacency(adj, x)
      b_entropy == entropy_from_adjacency(adj, y)
      joint_entropy ==
        entropy_from_adjacency(adj, SortedSeq(SetOf(x) \cup SetOf(y)))
  IN [ret |-> joint_entropy.ret - a_entropy.ret - b_entropy.ret,
      err |-> "", computed |-> 3]

\* mutual_information(adjacency, a, b). The three entropies are computed in
\* the order of lines 125-127 and the first exception ends the call;
\* computed counts the entropy values obtained before that.
\* list(set(a) | set(b)) is taken in ascending order: the rank of the
\* submatrix does not depend on the order of its rows.
mutual_information(adj, x, y) ==
  LET a_entropy == entropy_from_adjacency(adj, x)
      b_entropy == entropy_from_adjacency(adj, y)
      joint_entropy ==
        entropy_from_adjacency(adj, SortedSeq(SetOf(x) \cup SetOf(y)))
  IN IF a_entropy.err # ""
     THEN [ret |-> 0, err |-> a_entropy.err, computed |-> 0]
     ELSE IF b_entropy.err # ""
     THEN [ret |-> 0, err |-> b_entropy.err, computed |-> 1]
     ELSE IF joint_entropy.err # ""
     THEN [ret |-> 0, err |-> joint_entropy.err, computed |-> 2]
     ELSE [ret |-> a_entropy.ret + b_entropy.ret - joint_entropy.ret,
           err |-> "", computed |-> 3]

(***************************************************************************)
(* mutual_information_table                                                *)
(***************************************************************************)

\* list(itertools.combinations(seq, size)): the size-tuples of elements of
\* seq, positions increasing, in lexicographic order of the positions.
RECURSIVE combinations(_, _)
combinations(seq, size) ==
  IF size = 0 THEN << <<>> >>
  ELSE IF Len(seq) < size THEN <<>>
  ELSE LET with_first == combinations(Tail(seq), size - 1)
       IN [i \in 1 .. Len(with_first) |-> <<Head(seq)>> \o with_first[i]]
          \o combinations(Tail(seq), size)

\* The combos visited by the two loops of lines 134-135, in order.
RECURSIVE CombosFromSize(_, _)
CombosFromSize(frags, size) ==
  IF size > Len(frags) THEN <<>>
  ELSE combinations(frags, size) \o CombosFromSize(frags, size + 1)

\* The body of the loops (line 136) over the combos from position i on.
RECURSIVE FillTable(_, _, _, _, _, _)
FillTable(adj, bulk_set, combos, i, table, count) ==
  IF i > Len(combos)
  THEN [ret |-> table, err |-> "", computed |-> count]
  ELSE LET value == mutual_information(adj, bulk_set, combos[i])
       IN IF value.err # ""
          THEN [ret |-> table, err |-> value.err,
                computed |-> count + value.computed]
          ELSE FillTable(adj, bulk_set, combos, i + 1,
                         DictSet(table, combos[i], value.ret),
                         count + value.computed)

\* mutual_information_table with range(1, len(fragments)): the sizes stop one
\* short of the full set.
mutual_information_table_short(adj, blk, frags) ==
  LET combos == CombosFromSize(frags, 1)
      kept == SelectSeq(combos, LAMBDA c : Len(c) < Len(frags))
  IN FillTable(adj, <<blk>>, kept, 1, <<>>, 0)
       @@ [adjacency |-> adj]

\* mutual_information_table(adjacency, bulk, fragments)
mutual_information_table(adj, blk, frags) ==
  FillTable(adj, <<blk>>, CombosFromSize(frags, 1), 1, <<>>, 0)
    @@ [adjacency |-> adj]

(***************************************************************************)
(* serialize_table                                                         *)
(***************************************************************************)

\* Python's tuple comparison x < y.
RECURSIVE TupleLess(_, _)
TupleLess(x, y) ==
  IF y = <<>> THEN FALSE
  ELSE IF x = <<>> THEN TRUE
  ELSE IF Head(x) # Head(y) THEN Head(x) < Head(y)
  ELSE TupleLess(Tail(x), Tail(y))

\* The sort key (len(item[0]), item[0]) of line 144, compared.
KeyLess(x, y) == Len(x) < Len(y) \/ (Len(x) = Len(y) /\ TupleLess(x, y))

\* serialize_table(table): the entries sorted by (length, subset).
RECURSIVE serialize_table(_)
serialize_table(table) ==
  IF table = <<>> THEN <<>>
  ELSE LET at == CHOOSE i \in 1 .. Len(table) :
                   \A j \in 1 .. Len(table) :
                     j # i => KeyLess(table[i].k, table[j].k)
           rest == [i \in 1 .. (Len(table) - 1) |->
                      IF i < at THEN table[i] ELSE table[i + 1]]
       IN <<[subset |-> table[at].k, value |-> table[at].v]>>
            \o serialize_table(rest)

(***************************************************************************)
(* mobius_inversion                                                        *)
(***************************************************************************)

\* sorted(keys, key=len): a stable sort by length.
RECURSIVE SortedByLen(_, _)
SortedByLen(keys, size) ==
  IF \A i \in 1 .. Len(keys) : Len(keys[i]) < size THEN <<>>
  ELSE SelectSeq(keys, LAMBDA key : Len(key) = size)
         \o SortedByLen(keys, size + 1)

\* The inner loop subtracting only the subsets one element smaller.
RECURSIVE SubtractImmediate(_, _, _, _)
SubtractImmediate(f, subset, i, total) ==
  IF i > Len(f) THEN total
  ELSE SubtractImmediate(f, subset, i + 1,
         IF /\ SetOf(f[i].k) \subseteq SetOf(subset)
            /\ Len(f[i].k) = Len(subset) - 1
         THEN total - f[i].v ELSE total)

\* The inner loop of lines 153-155 over the entries of f_values from i on.
RECURSIVE SubtractSmaller(_, _, _, _)
SubtractSmaller(f, subset, i, total) ==
  IF i > Len(f) THEN total
  ELSE SubtractSmaller(f, subset, i + 1,
         IF SetOf(f[i].k) \subseteq SetOf(subset)
         THEN total - f[i].v ELSE total)

\* The outer loop of lines 151-156 over the sorted keys from i on.
RECURSIVE InvertFrom(_, _, _, _)
InvertFrom(table, order, i, f) ==
  IF i > Len(order) THEN f
  ELSE InvertFrom(table, order, i + 1,
         DictSet(f, order[i],
                 SubtractSmaller(f, order[i], 1, DictGet(table, order[i]))))

\* mobius_inversion(mi_table): the f-values, and the caller's table after
\* the call (the loops write f_values only).
mobius_inversion(table) ==
  [ret |-> InvertFrom(table, SortedByLen(DictKeys(table), 0), 1, <<>>),
   mi_table |-> table]

(***************************************************************************)
(* aggregate_fk                                                            *)
(***************************************************************************)

\* The loop storing each value instead of adding it to the sum of its size.
RECURSIVE AggregateOverwrite(_, _, _)
AggregateOverwrite(f, i, acc) ==
  IF i > Len(f) THEN acc
  ELSE AggregateOverwrite(f, i + 1, DictSet(acc, Len(f[i].k), f[i].v))

\* The loop of lines 162-163 over the entries of f_values from i on.
RECURSIVE AggregateFrom(_, _, _)
AggregateFrom(f, i, acc) ==
  IF i > Len(f) THEN acc
  ELSE AggregateFrom(f, i + 1,
         DictSet(acc, Len(f[i].k),
                 DictGetDefault(acc, Len(f[i].k), 0) + f[i].v))

\* aggregate_fk(f_values): the sums by subset size, and the caller's
\* f_values after the call.
aggregate_fk(f) == [ret |-> AggregateFrom(f, 1, <<>>), f_values |-> f]

(***************************************************************************)
(* running_synergy_ratio                                                   *)
(***************************************************************************)

\* Python's x / y.
TrueDiv(x, y) ==
  IF y = 0 THEN [err |-> "ZeroDivisionError", val |-> FloatZero]
  ELSE [err |-> "", val |-> FloatDiv(x, y)]

\* The quotient taken without the test for a zero total.
RatioUnguarded(cumulative, total) == TrueDiv(cumulative, total)

\* 0.0 if total_info == 0 else cumulative / total_info
RatioAt(cumulative, total) ==
  IF total = 0 THEN [err |-> "", val |-> FloatZero]
  ELSE TrueDiv(cumulative, total)

\* The accrual starting at order 2.
AccrueFromTwo(cumulative, k, value) ==
  IF k >= 2 THEN cumulative + value ELSE cumulative

\* if k >= 3: cumulative += fk[k]
Accrue(cumulative, k, value) ==
  IF k >= 3 THEN cumulative + value ELSE cumulative

\* sorted(fk)
SortedKeys(d) == SortedSeq(SetOf(DictKeys(d)))

\* The loop of lines 170-173 over the sorted keys from i on.
RECURSIVE RatiosFrom(_, _, _, _, _, _)
RatiosFrom(d, total, order, i, cumulative, out) ==
  IF i > Len(order) THEN [ret |-> out, err |-> ""]
  ELSE LET k == order[i]
           cum == Accrue(cumulative, k, DictGet(d, k))
           ratio == RatioAt(cum, total)
       IN IF ratio.err # "" THEN [ret |-> out, err |-> ratio.err]
          ELSE RatiosFrom(d, total, order, i + 1, cum,
                          Append(out, <<k, ratio.val>>))

\* running_synergy_ratio(fk, total_info): the (k, ratio) pairs, and the
\* caller's fk after the call.
running_synergy_ratio(d, total) ==
  RatiosFrom(d, total, SortedKeys(d), 1, 0, <<>>) @@ [fk |-> d]

(***************************************************************************)
(* Inputs                                                                  *)
(***************************************************************************)

\* M.T
Transpose(m) == [c \in 1 .. Cols(m) |-> [r \in 1 .. Rows(m) |-> m[r][c]]]

\* The adjacency matrix of the graph on the nodes 0 .. n-1 with the edges
\* E: symmetric, binary, zero diagonal.
GraphMatrix(n, E) ==
  [i \in 1 .. n |->
     [j \in 1 .. n |->
        IF <<i - 1, j - 1>> \in E \/ <<j - 1, i - 1>> \in E THEN 1 ELSE 0]]

\* The graph states on n nodes.
Graphs(n) ==
  {GraphMatrix(n, E) :
     E \in SUBSET {p \in (0 .. (n - 1)) \X (0 .. (n - 1)) : p[1] < p[2]}}

\* bulk_target = 15: the bulk node is the last node of the graph.
BulkTarget == NumNodes - 1

\* The lists of distinct elements of S, each subset of S once in ascending
\* and once in descending order.
FragmentLists(S) ==
  UNION {LET up == SortedSeq(F)
         IN {up, [i \in 1 .. Len(up) |-> up[Len(up) + 1 - i]]} :
           F \in SUBSET S}

\* The subsets of the nodes 0 .. n-1, each as an ascending list.
NodeSubsets(n) == {SortedSeq(S) : S \in SUBSET (0 .. (n - 1))}

\* The binary matrices of every shape up to MaxDim x MaxDim.
BinaryMatrices ==
  UNION {[1 .. r -> [1 .. c -> {0, 1}]] : r \in 1 .. MaxDim, c \in 1 .. MaxDim}

\* The fk mappings: keys among 1 .. MaxOrder inserted in ascending or in
\* descending order, values in -MaxVal .. MaxVal.
FkMappings ==
  UNION {LET order == SortedSeq(K)
             n == Len(order)
         IN UNION {{[i \in 1 .. n |-> [k |-> order[i], v |-> val[i]]],
                    [i \in 1 .. n |->
                       [k |-> order[n + 1 - i], v |-> val[n + 1 - i]]]} :
                     val \in [1 .. n -> (-MaxVal) .. MaxVal]} :
           K \in SUBSET (1 .. MaxOrder)}

\* The adjacency matrix with its last row, or its last column, missing.
DropLastRow(m) == SubSeq(m, 1, Len(m) - 1)
DropLastCol(m) == [r \in 1 .. Len(m) |-> SubSeq(m[r], 1, Len(m[r]) - 1)]

NoResult ==
  [label |-> "", bulk_target |-> 0, fragment_set |-> <<>>,
   mutual_information |-> <<>>, f_values |-> <<>>, fk |-> <<>>,
   synergy_ratio |-> <<>>, total_information |-> 0]

AnalysisIdle ==
  /\ bulk = 0 /\ fragments = <<>> /\ ordered_fragments = <<>>
  /\ mi_table = <<>> /\ f_values = <<>> /\ result = NoResult
  /\ computed = 0

RatioIdle == fk = <<>> /\ total_info = 0 /\ ratios = <<>>

RankIdle == matrix = <<>> /\ rank = 0 /\ rank_t = 0

MIIdle == a = <<>> /\ b = <<>> /\ mi = 0

\* analyze_fragments is about to run on a graph state with a bulk node and
\* a list of distinct fragment nodes (run_experiment, lines 204-227), or a
\* caller is about to build the table from the list as given.
InitAnalysis ==
  /\ pc = "start" /\ err = ""
  /\ adjacency \in Graphs(NumNodes)
  /\ bulk = BulkTarget
  /\ fragments \in FragmentLists(Nodes \ {BulkTarget})
  /\ ordered_fragments = <<>> /\ mi_table = <<>> /\ f_values = <<>>
  /\ result = NoResult /\ computed = 0
  /\ RatioIdle /\ RankIdle /\ MIIdle

\* analyze_fragments is about to run on a non-empty fragment list and an
\* input that breaks the contract of the graph builder: a matrix that is
\* not square, or a bulk or fragment index outside [0, n).
InitMalformed ==
  /\ pc = "start" /\ err = ""
  /\ \E g \in Graphs(NumNodes) :
       \/ /\ adjacency \in {DropLastRow(g), DropLastCol(g)}
          /\ bulk \in {0, BulkTarget}
          /\ fragments \in FragmentLists(Nodes \ {bulk})
       \/ /\ adjacency = g
          /\ bulk \in {-1, NumNodes}
          /\ fragments \in FragmentLists(Nodes)
       \/ /\ adjacency = g
          /\ bulk = BulkTarget
          /\ fragments \in FragmentLists(((-1) .. NumNodes) \ {BulkTarget})
          /\ \E i \in 1 .. Len(fragments) : fragments[i] \notin Nodes
  /\ fragments # <<>>
  /\ ordered_fragments = <<>> /\ mi_table = <<>> /\ f_values = <<>>
  /\ result = NoResult /\ computed = 0
  /\ RatioIdle /\ RankIdle /\ MIIdle

\* gf2_rank is about to be called on a binary matrix.
InitRank ==
  /\ pc = "rank" /\ err = ""
  /\ matrix \in BinaryMatrices
  /\ rank = 0 /\ rank_t = 0
  /\ adjacency = <<>> /\ AnalysisIdle /\ RatioIdle /\ MIIdle

\* mutual_information is about to be called on a graph state and two
\* subsets of its nodes.
InitMI ==
  /\ pc = "mi" /\ err = ""
  /\ adjacency \in Graphs(NumNodesMI)
  /\ a \in NodeSubsets(NumNodesMI) /\ b \in NodeSubsets(NumNodesMI)
  /\ mi = 0
  /\ AnalysisIdle /\ RatioIdle /\ RankIdle

\* running_synergy_ratio is about to be called on an fk mapping and a total.
InitRatio ==
  /\ pc = "ratio_call" /\ err = ""
  /\ fk \in FkMappings
  /\ total_info \in (-MaxVal) .. MaxVal
  /\ ratios = <<>>
  /\ adjacency = <<>> /\ AnalysisIdle /\ RankIdle /\ MIIdle

Init == InitAnalysis \/ InitRank \/ InitMI \/ InitRatio

(***************************************************************************)
(* analyze_fragments, statement by statement                               *)
(***************************************************************************)

\* ordered_fragments = sorted(fragments)
Sort ==
  /\ pc = "start"
  /\ ordered_fragments' = SortedList(fragments)
  /\ pc' = "table"
  /\ UNCHANGED <<adjacency, bulk, fragments, mi_table, f_values, fk,
                 total_info, ratios, result, err, computed>>
  /\ UNCHANGED <<rankVars, miVars>>

\* mi_table = mutual_information_table(adjacency, bulk, ordered_fragments)
BuildTable ==
  /\ pc = "table"
  /\ \E call \in {mutual_information_table(adjacency, bulk, ordered_fragments)} :
      /\ adjacency' = call.adjacency
      /\ computed' = computed + call.computed
      /\ err' = call.err
      /\ mi_table' = IF call.err = "" THEN call.ret ELSE mi_table
      /\ pc' = IF call.err = "" THEN "mobius" ELSE "raised"
  /\ UNCHANGED <<bulk, fragments, ordered_fragments, f_values, fk,
                 total_info, ratios, result>>
  /\ UNCHANGED <<rankVars, miVars>>

\* f_values = mobius_inversion(mi_table)
Invert ==
  /\ pc = "mobius"
  /\ \E call \in {mobius_inversion(mi_table)} :
      /\ f_values' = call.ret
      /\ mi_table' = call.mi_table
  /\ pc' = "aggregate"
  /\ UNCHANGED <<adjacency, bulk, fragments, ordered_fragments, fk,
                 total_info, ratios, result, err, computed>>
  /\ UNCHANGED <<rankVars, miVars>>

\* fk = aggregate_fk(f_values)
Aggregate ==
  /\ pc = "aggregate"
  /\ \E call \in {aggregate_fk(f_values)} :
      /\ fk' = call.ret
      /\ f_values' = call.f_values
  /\ pc' = "total"
  /\ UNCHANGED <<adjacency, bulk, fragments, ordered_fragments, mi_table,
                 total_info, ratios, result, err, computed>>
  /\ UNCHANGED <<rankVars, miVars>>

\* total_info = mi_table[tuple(ordered_fragments)]: KeyError when the
\* table has no such key.
ReadTotal ==
  /\ pc = "total"
  /\ IF DictHas(mi_table, ordered_fragments)
     THEN /\ total_info' = DictGet(mi_table, ordered_fragments)
          /\ pc' = "ratio"
          /\ err' = err
     ELSE /\ total_info' = total_info
          /\ pc' = "raised"
          /\ err' = "KeyError"
  /\ UNCHANGED <<adjacency, bulk, fragments, ordered_fragments, mi_table,
                 f_values, fk, ratios, result, computed>>
  /\ UNCHANGED <<rankVars, miVars>>

\* ratios = running_synergy_ratio(fk, total_info)
Ratio ==
  /\ pc = "ratio"
  /\ \E call \in {running_synergy_ratio(fk, total_info)} :
      /\ ratios' = IF call.err = "" THEN call.ret ELSE ratios
      /\ fk' = call.fk
      /\ err' = call.err
      /\ pc' = IF call.err = "" THEN "return" ELSE "raised"
  /\ UNCHANGED <<adjacency, bulk, fragments, ordered_fragments, mi_table,
                 f_values, total_info, result, computed>>
  /\ UNCHANGED <<rankVars, miVars>>

\* The return of lines 189-198.
Return ==
  /\ pc = "return"
  /\ result' = [label |-> "label", bulk_target |-> bulk,
                fragment_set |-> ordered_fragments,
                mutual_information |-> serialize_table(mi_table),
                f_values |-> serialize_table(f_values),
                fk |-> fk, synergy_ratio |-> ratios,
                total_information |-> total_info]
  /\ pc' = "done"
  /\ UNCHANGED <<adjacency, bulk, fragments, ordered_fragments, mi_table,
                 f_values, fk, total_info, ratios, err, computed>>
  /\ UNCHANGED <<rankVars, miVars>>

(***************************************************************************)
(* The stages called on their own                                          *)
(***************************************************************************)

\* mutual_information_table(adjacency, bulk, fragments), the list as given.
CallTable ==
  /\ pc = "start"
  /\ \E call \in {mutual_information_table(adjacency, bulk, fragments)} :
      /\ adjacency' = call.adjacency
      /\ computed' = computed + call.computed
      /\ err' = call.err
      /\ mi_table' = IF call.err = "" THEN call.ret ELSE mi_table
      /\ pc' = IF call.err = "" THEN "called_table" ELSE "raised"
  /\ UNCHANGED <<bulk, fragments, ordered_fragments, f_values, fk,
                 total_info, ratios, result>>
  /\ UNCHANGED <<rankVars, miVars>>

\* mobius_inversion(mi_table) on the table so built.
CallMobius ==
  /\ pc = "called_table"
  /\ \E call \in {mobius_inversion(mi_table)} :
      /\ f_values' = call.ret
      /\ mi_table' = call.mi_table
  /\ pc' = "called_mobius"
  /\ UNCHANGED <<adjacency, bulk, fragments, ordered_fragments, fk,
                 total_info, ratios, result, err, computed>>
  /\ UNCHANGED <<rankVars, miVars>>

\* gf2_rank(matrix)
CallRank ==
  /\ pc = "rank"
  /\ \E call \in {gf2_rank(matrix)} :
      /\ rank' = call.ret
      /\ matrix' = call.matrix
  /\ pc' = "rank_t"
  /\ UNCHANGED <<analysisVars, err, rank_t, miVars>>

\* gf2_rank(matrix.T); the transpose is a view of the caller's array.
CallRankTransposed ==
  /\ pc = "rank_t"
  /\ \E call \in {gf2_rank(Transpose(matrix))} :
      /\ rank_t' = call.ret
      /\ matrix' = Transpose(call.matrix)
  /\ pc' = "rank_done"
  /\ UNCHANGED <<analysisVars, err, rank, miVars>>

\* mutual_information(adjacency, a, b)
CallMI ==
  /\ pc = "mi"
  /\ \E call \in {mutual_information(adjacency, a, b)} :
      /\ mi' = call.ret
      /\ err' = call.err
      /\ pc' = IF call.err = "" THEN "mi_done" ELSE "mi_raised"
  /\ UNCHANGED <<analysisVars, rankVars, a, b>>

\* running_synergy_ratio(fk, total_info)
CallRatio ==
  /\ pc = "ratio_call"
  /\ \E call \in {running_synergy_ratio(fk, total_info)} :
      /\ ratios' = IF call.err = "" THEN call.ret ELSE ratios
      /\ fk' = call.fk
      /\ err' = call.err
      /\ pc' = IF call.err = "" THEN "ratio_done" ELSE "ratio_raised"
  /\ UNCHANGED <<adjacency, bulk, fragments, ordered_fragments, mi_table,
                 f_values, total_info, result, computed>>
  /\ UNCHANGED <<rankVars, miVars>>

\* The statements of analyze_fragments.
NextAnalysis ==
  \/ Sort
  \/ BuildTable
  \/ Invert
  \/ Aggregate
  \/ ReadTotal
  \/ Ratio
  \/ Return

Next ==
  \/ NextAnalysis
  \/ CallTable
  \/ CallMobius
  \/ CallRank
  \/ CallRankTransposed
  \/ CallMI
  \/ CallRatio

Spec == Init /\ [][Next]_vars

SpecMalformed == InitMalformed /\ [][NextAnalysis]_vars

(***************************************************************************)
(* Properties                                                              *)
(***************************************************************************)

RECURSIVE Pow2(_)
Pow2(n) == IF n = 0 THEN 1 ELSE 2 * Pow2(n - 1)

\* The sum of g[i] over the i of 1 .. n that are in the set I.
RECURSIVE SumAt(_, _, _)
SumAt(g, I, n) ==
  IF n = 0 THEN 0
  ELSE SumAt(g, I, n - 1) + (IF n \in I THEN g[n] ELSE 0)

\* mutual_information_table has just returned the table mi_table.
TableBuilt == pc \in {"mobius", "called_table"}

\* The fragment list the table was built from.
TableInput == IF pc = "called_table" THEN fragments ELSE ordered_fragments

\* mobius_inversion has just returned the f-values of mi_table.
InversionDone == pc \in {"aggregate", "called_mobius"}

\* running_synergy_ratio has returned the ratios of fk and total_info.
RatiosEmitted == pc \in {"ratio_done", "return", "done"}

\* C1: Moebius inversion round trip. Once mobius_inversion has returned the
\* f-values of a table built by mutual_information_table, every entry S of
\* the table has MI(S) equal to the sum of f(T) over the table keys T whose
\* member set is contained in the member set of S (S included).
C1_RoundTrip ==
  InversionDone =>
    \A i \in 1 .. Len(mi_table) :
      mi_table[i].v =
        SumAt([j \in 1 .. Len(mi_table) |-> DictGet(f_values, mi_table[j].k)],
              {j \in 1 .. Len(mi_table) :
                 SetOf(mi_table[j].k) \subseteq SetOf(mi_table[i].k)},
              Len(mi_table))

\* An inversion over three fragments given out of order, where the full
\* set and a pair both carry a non-zero f-value.
C1_Witness ==
  /\ pc = "called_mobius"
  /\ Len(fragments) = 3
  /\ fragments[1] > fragments[2]
  /\ \E i, j \in 1 .. Len(f_values) :
       /\ Len(f_values[i].k) = 3 /\ f_values[i].v # 0
       /\ Len(f_values[j].k) = 2 /\ f_values[j].v # 0

\* The position of x in the list seq of distinct elements.
PositionIn(seq, x) == CHOOSE p \in 1 .. Len(seq) : seq[p] = x

\* x precedes y in lexicographic order, x and y of the same length.
LexBefore(x, y) ==
  \E p \in 1 .. Len(x) :
    /\ x[p] < y[p]
    /\ \A q \in 1 .. (p - 1) : x[q] = y[q]

\* C5: for a list of m distinct fragments the table has exactly 2^m - 1
\* entries; every key is a non-empty tuple of fragments in increasing
\* position of the list as given; the keys come size by size and, within a
\* size, in lexicographic order of their positions (so every non-empty
\* subset is keyed exactly once); and every value is
\* entropy([bulk]) + entropy(subset) - entropy([bulk] + subset).
C5_TableShape ==
  TableBuilt =>
    LET frags == TableInput
        pos(key) == [p \in 1 .. Len(key) |-> PositionIn(frags, key[p])]
    IN /\ Len(mi_table) = Pow2(Len(frags)) - 1
       /\ \A i \in 1 .. Len(mi_table) :
            LET key == mi_table[i].k
            IN /\ Len(key) \in 1 .. Len(frags)
               /\ SetOf(key) \subseteq SetOf(frags)
               /\ \A p \in 1 .. (Len(key) - 1) :
                    PositionIn(frags, key[p]) < PositionIn(frags, key[p + 1])
               /\ mi_table[i].v =
                    entropy_from_adjacency(adjacency, <<bulk>>).ret
                    + entropy_from_adjacency(adjacency, key).ret
                    - entropy_from_adjacency(
                        adjacency, SortedSeq({bulk} \cup SetOf(key))).ret
       /\ \A i \in 1 .. (Len(mi_table) - 1) :
            LET x == mi_table[i].k
                y == mi_table[i + 1].k
            IN \/ Len(x) + 1 = Len(y)
               \/ Len(x) = Len(y) /\ LexBefore(pos(x), pos(y))

\* A table built from three fragments given out of ascending order, with a
\* non-zero entry.
C5_Witness ==
  /\ pc = "called_table"
  /\ Len(fragments) = 3
  /\ fragments[2] > fragments[3]
  /\ \E i \in 1 .. Len(mi_table) : mi_table[i].v > 0

\* C4: mutual information is never negative: for a symmetric, zero-diagonal
\* binary adjacency matrix and any two node subsets a and b, the value
\* returned by mutual_information(adjacency, a, b) is >= 0.
C4_NonNegative == pc = "mi_done" => mi >= 0

\* A positive mutual information between two different overlapping subsets.
C4_Witness ==
  /\ pc = "mi_done"
  /\ mi > 0
  /\ a # b
  /\ SetOf(a) \cap SetOf(b) # {}

\* C8: gf2_rank(M) = gf2_rank(M^T) for every binary matrix M, and the rank
\* lies in [0, min(rows, cols)].
C8_RankTranspose ==
  pc = "rank_done" =>
    /\ rank = rank_t
    /\ 0 <= rank
    /\ rank <= Rows(matrix)
    /\ rank <= Cols(matrix)

\* A matrix that is not square, of rank 2, whose first pivot needs a swap.
C8_Witness ==
  /\ pc = "rank_done"
  /\ Rows(matrix) = 3 /\ Cols(matrix) = 2
  /\ matrix[1][1] = 0 /\ matrix[2][1] = 1
  /\ rank = 2

\* The keys of fk are 1 .. m for some m, as aggregate_fk produces them from
\* the f-values of a table.
KeysContiguous == SetOf(DictKeys(fk)) = 1 .. Len(fk)

\* The sum of fk[j] over the keys j with lo <= j <= hi.
FkSum(lo, hi) ==
  SumAt([i \in 1 .. Len(fk) |-> fk[i].v],
        {i \in 1 .. Len(fk) : lo <= fk[i].k /\ fk[i].k <= hi}, Len(fk))

C7_ZeroTotal ==
  /\ err # "ZeroDivisionError"
  /\ pc # "ratio_raised"
  /\ (RatiosEmitted /\ total_info = 0) =>
       /\ Len(ratios) = Len(fk)
       /\ \A i \in 1 .. Len(ratios) : ratios[i][2] = FloatZero

\* A call with a zero total on an fk with a non-zero value of order >= 3.
C7_Witness ==
  /\ pc = "ratio_done"
  /\ total_info = 0
  /\ \E i \in 1 .. Len(fk) : fk[i].k >= 3 /\ fk[i].v # 0

\* C9: no stage changes what it was handed: in every step the array given
\* to gf2_rank and the adjacency matrix stay as they were, and so do the MI
\* table once built, the f-values once inverted and fk once aggregated.
C9_InputsUnchanged ==
  [][/\ matrix' = matrix
     /\ adjacency' = adjacency
     /\ mi_table' = mi_table \/ pc \in {"start", "table"}
     /\ f_values' = f_values \/ pc \in {"mobius", "called_table"}
     /\ fk' = fk \/ pc = "aggregate"]_vars

\* gf2_rank has returned from a matrix that its elimination had to change
\* (a row swap or an XOR took place on the working copy).
C9_Witness ==
  /\ pc = "rank_done"
  /\ Eliminate(CopyMod2(matrix), 0, 0).m # matrix
  /\ matrix[1][1] = 0
  /\ rank = 3

\* The value of fk at order k, 0 when no subset has that size.
FkAt(k) == DictGetDefault(fk, k, 0)

\* C10: conservation. In a run of analyze_fragments on a non-empty list of
\* distinct fragments, the fk values sum to total_info; and the last ratio
\* emitted is (total_info - fk[1] - fk[2]) / total_info when total_info # 0.
C10_Conservation ==
  /\ pc \in {"ratio", "return", "done"} => FkSum(1, Len(fk)) = total_info
  /\ (pc \in {"return", "done"} /\ total_info # 0) =>
       /\ Len(ratios) > 0
       /\ ratios[Len(ratios)][2].den # 0
       /\ ratios[Len(ratios)][2].num * total_info =
            (total_info - FkAt(1) - FkAt(2)) * ratios[Len(ratios)][2].den

\* A finished run on three fragments whose last ratio is not zero.
C10_Witness ==
  /\ pc = "done"
  /\ Len(ordered_fragments) = 3
  /\ total_info # 0
  /\ ratios[3][2] # FloatZero
  /\ FkAt(1) # 0

\* analyze_fragments is running or has ended.
InAnalysis ==
  pc \in {"start", "table", "mobius", "aggregate", "total", "ratio",
          "return", "done", "raised"}

\* C2: a run of analyze_fragments on an empty fragment list builds an empty
\* table and then completes every later stage without raising, returning
\* empty tables.
C2_EmptyRunCompletes ==
  (InAnalysis /\ fragments = <<>>) =>
    /\ pc # "raised"
    /\ mi_table = <<>>
    /\ pc = "done" =>
         /\ result.mutual_information = <<>>
         /\ result.f_values = <<>>
         /\ result.fk = <<>>
         /\ result.synergy_ratio = <<>>

\* The input breaks the contract: the matrix is not square, or the bulk or
\* a fragment index lies outside [0, n).
Malformed ==
  \/ Rows(adjacency) # Cols(adjacency)
  \/ bulk \notin 0 .. (Rows(adjacency) - 1)
  \/ \E i \in 1 .. Len(fragments) :
       fragments[i] \notin 0 .. (Rows(adjacency) - 1)

\* C3: on a malformed input analyze_fragments raises before any entropy
\* value is computed and never gets a table back.
C3_RejectedEagerly ==
  (InAnalysis /\ Malformed) =>
    /\ computed = 0
    /\ pc \in {"start", "table", "raised"}

====
